---- MODULE Spec2Model ----
(***************************************************************************)
(* A model of the ride-sharing simulation: the priority queue of events,   *)
(* the dispatcher, the driver and rider entities, the monitor's activity   *)
(* log and the event handlers (RiderRequest, DriverRequest, Cancellation,  *)
(* Pickup, Dropoff).                                                       *)
(*                                                                         *)
(* The specifications share the variables:                                 *)
(*   SpecPQ    any sequence of add / remove calls on a PriorityQueue       *)
(*   SpecDisp  any sequence of Dispatcher calls, with the Driver           *)
(*             transitions the callers make in between                     *)
(*   SpecDrv   any sequence of calls on one Driver                         *)
(*   SpecMon   any sequence of notify / report calls on a Monitor          *)
(*   Spec      a simulation run: the initial events are seeded in the      *)
(*             queue, the loop pops the earliest event, runs its do() and  *)
(*             pushes the events it returns                                *)
(*   FairSpec  the simulation runs of some of the inputs of Spec, with     *)
(*             the loop taking its next turn whenever it can               *)
(***************************************************************************)
EXTENDS Integers, Sequences, FiniteSets, TLC

\* ------------------------------------------------------------------ bounds

\* Largest row / column of the grid the participants live on.
MaxCoord == 1
\* Fastest driver speed (speeds are 1 or MaxSpeed).
MaxSpeed == 2
\* Largest rider patience (patience is 0 or MaxPatience).
MaxPatience == 2
\* Latest timestamp of an initial event (0 or MaxTime).
MaxTime == 1
\* Calls to PriorityQueue.add in one run of SpecPQ.
MaxAdds == 4
\* Largest priority of an item in SpecPQ.
MaxPriority == 2
\* Longest waiting list in SpecDisp.
MaxWaiting == 3

\* ------------------------------------------------------------- participants

Drivers == {"d1", "d2"}
Riders == {"r1", "r2", "r3"}

\* Python's None, for a rider or driver reference.
None == "None"

\* rider.py: the three rider statuses.
WAITING == "waiting"
CANCELLED == "cancelled"
SATISFIED == "satisfied"

\* monitor.py: categories and descriptions of activities.
RIDER == "rider"
DRIVER == "driver"
REQUEST == "request"
CANCEL == "cancel"
PICKUP == "pickup"
DROPOFF == "dropoff"

VARIABLES
    events,             \* PriorityQueue._items
    driver,             \* the Driver objects: location, speed, is_idle, rider, destination
    rider,              \* the Rider objects: origin, destination, patience, status
    waiting_list,       \* Dispatcher._waiting_list
    available_drivers,  \* Dispatcher._available_drivers
    activities,         \* Monitor._activities
    crashed,            \* an exception left the running call
    last,               \* the last call made: its name, arguments and result
    added,              \* SpecPQ: the number of add calls so far
    enq,                \* SpecDisp: the waiting-list entries with their order of arrival
    matched             \* Spec: the riders whose RiderRequest found a driver that
                        \* reaches them before their patience runs out

vars == <<events, driver, rider, waiting_list, available_drivers, activities,
          crashed, last, added, enq, matched>>

\* ---------------------------------------------------------------- location

\* A Location: n is the row, m the column.
Location(row, column) == [n |-> row, m |-> column]

\* Python's None where a Location is expected.
NoLocation == [n |-> -1, m |-> -1]

Abs(x) == IF x < 0 THEN -x ELSE x

\* A plausible slip: the differences are added without abs().
manhattan_distance_signed(origin, destination) ==
    LET latitude == destination.n - origin.n
        longitude == destination.m - origin.m
    IN  longitude + latitude

manhattan_distance(origin, destination) ==
    LET latitude == Abs(destination.n - origin.n)
        longitude == Abs(destination.m - origin.m)
    IN  longitude + latitude

Locs == {Location(r, c) : r \in 0..MaxCoord, c \in 0..MaxCoord}

\* ----------------------------------------------------------- priority queue

\* Event.__le__ and Event.__ge__: events compare by timestamp only.
EventLe(a, b) == a.timestamp <= b.timestamp
EventLt(a, b) == a.timestamp < b.timestamp
EventGe(a, b) == ~EventLt(a, b)

\* list.insert(i, item), i counted from 0.
ListInsert(items, i, item) ==
    SubSeq(items, 1, i) \o <<item>> \o SubSeq(items, i + 1, Len(items))

\* A plausible slip: add appends without looking for the place.
PQAddLoopAppend(items, item, i) == Append(items, item)

\* The while loop of PriorityQueue.add, from index i (counted from 0).
RECURSIVE PQAddLoop(_, _, _)
PQAddLoop(items, item, i) ==
    IF i >= Len(items) THEN items
    ELSE IF EventLe(item, items[i + 1]) THEN ListInsert(items, i, item)
    ELSE IF EventGe(item, items[Len(items)]) THEN Append(items, item)
    ELSE PQAddLoop(items, item, i + 1)

\* A plausible slip: add puts the new item in front (a stack).
PQAddFront(items, item) == <<item>> \o items

PQAdd(items, item) ==
    IF items # <<>> THEN PQAddLoop(items, item, 0) ELSE Append(items, item)

\* PriorityQueue.remove: on an empty queue it passes, which returns None.
PQRemoveItems(items) == IF items = <<>> THEN items ELSE Tail(items)

RECURSIVE PQAddAll(_, _)
PQAddAll(items, new) ==
    IF new = <<>> THEN items ELSE PQAddAll(PQAdd(items, Head(new)), Tail(new))

\* ------------------------------------------------ SpecPQ: the queue alone

\* An item of SpecPQ: its priority and the number of the add call that put it.
NoItem == [timestamp |-> -1, tag |-> 0]

InitEntities ==
    /\ driver = [d \in Drivers |->
                   [location |-> Location(0, 0), speed |-> 1, is_idle |-> TRUE,
                    rider |-> None, destination |-> NoLocation]]
    /\ rider = [r \in Riders |->
                  [origin |-> Location(0, 0), destination |-> Location(0, 0),
                   patience |-> 0, status |-> WAITING]]
    /\ waiting_list = <<>>
    /\ available_drivers = <<>>
    /\ activities = [c \in {RIDER, DRIVER} |->
                       [p \in (IF c = RIDER THEN Riders ELSE Drivers) |-> <<>>]]
    /\ crashed = FALSE
    /\ enq = {}
    /\ matched = {}

InitPQ ==
    /\ InitEntities
    /\ events = <<>>
    /\ added = 0
    /\ last = [op |-> "init", ret |-> NoItem]

PQAddCall ==
    /\ added < MaxAdds
    /\ \E p \in 0..MaxPriority :
          LET item == [timestamp |-> p, tag |-> added + 1]
          IN  /\ events' = PQAdd(events, item)
              /\ last' = [op |-> "add", ret |-> NoItem]
    /\ added' = added + 1
    /\ UNCHANGED <<driver, rider, waiting_list, available_drivers, activities,
                   crashed, enq, matched>>

PQRemoveCall ==
    /\ events' = PQRemoveItems(events)
    /\ last' = [op |-> "remove",
                ret |-> IF events = <<>> THEN NoItem ELSE Head(events)]
    /\ UNCHANGED <<driver, rider, waiting_list, available_drivers, activities,
                   crashed, added, enq, matched>>

NextPQ == PQAddCall \/ PQRemoveCall

SpecPQ == InitPQ /\ [][NextPQ]_vars

\* ------------------------------------------------------------ claims C3, C4

\* C3 (as claimed): ties are resolved in FIFO order: the item remove returns
\* was added before every item of equal priority still in the queue.
C3_FifoOnTies ==
    (last.op = "remove" /\ last.ret # NoItem) =>
        \A k \in 1..Len(events) :
            events[k].timestamp = last.ret.timestamp => last.ret.tag < events[k].tag

\* C4: the stored items are in non-decreasing priority order, and the item
\* remove returns is a minimum of the queue it was taken from.
C4_SortedAndMin ==
    /\ \A i, j \in 1..Len(events) :
          i < j => events[i].timestamp <= events[j].timestamp
    /\ (last.op = "remove" /\ last.ret # NoItem) =>
          \A k \in 1..Len(events) : last.ret.timestamp <= events[k].timestamp

\* C4 witness: a removal from a queue that holds three priorities, the items
\* having been added out of order.
C4_Witness ==
    /\ last.op = "remove" /\ last.ret # NoItem
    /\ Len(events) >= 2
    /\ last.ret.timestamp < events[1].timestamp
    /\ events[1].timestamp < events[2].timestamp
    /\ last.ret.tag > events[1].tag
    /\ events[1].tag > events[2].tag

\* ------------------------------------------------------------------ driver

\* Python 3's round(d / s, 0) for integers d >= 0 and s >= 1: the nearest
\* integer, an exact half going to the even neighbour.
PyRound(d, s) ==
    LET q == d \div s
        r == d % s
    IN  IF 2 * r < s THEN q
        ELSE IF 2 * r > s THEN q + 1
        ELSE IF q % 2 = 0 THEN q ELSE q + 1

\* Driver.get_travel_time raises (AttributeError in manhattan_distance) when
\* the driver's location or the destination is None.
TravelRaises(d, destination) ==
    d.location = NoLocation \/ destination = NoLocation

get_travel_time(d, destination) ==
    PyRound(manhattan_distance(d.location, destination), d.speed)

start_drive(d, location) ==
    [d EXCEPT !.destination = location, !.is_idle = FALSE]

\* A plausible slip: end_drive forgets to move the driver.
end_drive_stay(d) ==
    [d EXCEPT !.is_idle = TRUE, !.destination = NoLocation]

end_drive(d) ==
    [d EXCEPT !.location = d.destination, !.is_idle = TRUE,
              !.destination = NoLocation]

start_ride(d, r, r_destination) ==
    [d EXCEPT !.rider = r, !.destination = r_destination, !.is_idle = FALSE]

end_ride(d) ==
    [d EXCEPT !.location = IF d.destination # NoLocation THEN d.destination ELSE @,
              !.is_idle = TRUE, !.destination = NoLocation, !.rider = None]

\* -------------------------------------------------------------- dispatcher

Range(s) == {s[i] : i \in 1..Len(s)}

\* The first loop of request_driver: no known driver is idle.
NobodyAvailable(drv, ad) == \A i \in 1..Len(ad) : ~drv[ad[i]].is_idle

\* The second loop of request_driver, from the i-th known driver on, with the
\* fastest driver found so far.
RECURSIVE FastestDriver(_, _, _, _, _)
FastestDriver(drv, ad, place, i, fastest) ==
    IF i > Len(ad) THEN fastest
    ELSE IF /\ get_travel_time(drv[ad[i]], place) < get_travel_time(drv[fastest], place)
            /\ drv[ad[i]].is_idle
         THEN FastestDriver(drv, ad, place, i + 1, ad[i])
         ELSE FastestDriver(drv, ad, place, i + 1, fastest)

\* A plausible slip: the commented-out start_drive of request_driver is live,
\* so that the chosen driver is busy when the call returns.
request_driver_start_drive(drv, ad, wl, rid, r) ==
    IF NobodyAvailable(drv, ad)
    THEN [ret |-> None, wl |-> Append(wl, r), drv |-> drv, raises |-> FALSE]
    ELSE IF \E i \in 1..Len(ad) : TravelRaises(drv[ad[i]], rid[r].origin)
    THEN [ret |-> None, wl |-> wl, drv |-> drv, raises |-> TRUE]
    ELSE LET fastest == FastestDriver(drv, ad, rid[r].origin, 1, ad[1])
         IN  [ret |-> fastest, wl |-> wl,
              drv |-> [drv EXCEPT ![fastest] =
                          start_drive([drv[fastest] EXCEPT !.rider = r],
                                      rid[r].origin)],
              raises |-> FALSE]

\* Dispatcher.request_driver: the result, the waiting list and the drivers
\* after the call; raises when a travel time cannot be computed.
request_driver(drv, ad, wl, rid, r) ==
    IF NobodyAvailable(drv, ad)
    THEN [ret |-> None, wl |-> Append(wl, r), drv |-> drv, raises |-> FALSE]
    ELSE IF \E i \in 1..Len(ad) : TravelRaises(drv[ad[i]], rid[r].origin)
    THEN [ret |-> None, wl |-> wl, drv |-> drv, raises |-> TRUE]
    ELSE LET fastest == FastestDriver(drv, ad, rid[r].origin, 1, ad[1])
         IN  [ret |-> fastest, wl |-> wl,
              drv |-> [drv EXCEPT ![fastest].rider = r], raises |-> FALSE]

\* A plausible slip: request_rider hands out the rider that came last.
request_rider_last(drv, ad, wl, rid, d) ==
    LET ad2 == IF d \in Range(ad) THEN ad ELSE Append(ad, d)
    IN  IF Len(wl) = 0
        THEN [ret |-> None, wl |-> wl, ad |-> ad2, drv |-> drv]
        ELSE [ret |-> wl[Len(wl)], wl |-> SubSeq(wl, 1, Len(wl) - 1), ad |-> ad2,
              drv |-> [drv EXCEPT ![d].destination = rid[wl[Len(wl)]].origin]]

\* Dispatcher.request_rider: the result, the waiting list, the known drivers
\* and the drivers after the call.
request_rider(drv, ad, wl, rid, d) ==
    LET ad2 == IF d \in Range(ad) THEN ad ELSE Append(ad, d)
    IN  IF Len(wl) = 0
        THEN [ret |-> None, wl |-> wl, ad |-> ad2, drv |-> drv]
        ELSE [ret |-> Head(wl), wl |-> Tail(wl), ad |-> ad2,
              drv |-> [drv EXCEPT ![d].destination = rid[Head(wl)].origin]]

\* list.remove(x): the first occurrence goes.
RECURSIVE ListRemove(_, _)
ListRemove(s, x) ==
    IF s = <<>> THEN s
    ELSE IF Head(s) = x THEN Tail(s)
    ELSE <<Head(s)>> \o ListRemove(Tail(s), x)

\* A plausible slip: cancel_ride leaves the waiting list as it is.
cancel_ride_keep(wl, r) == wl

\* Dispatcher.cancel_ride.
cancel_ride(wl, r) == IF r \in Range(wl) THEN ListRemove(wl, r) ELSE wl

\* ------------------------------------- SpecDisp: the dispatcher's calls

\* The arrival number of the entry the waiting list gets next.
NextTick == IF enq = {} THEN 1
            ELSE 1 + (CHOOSE t \in {e.tick : e \in enq} :
                        \A e \in enq : e.tick <= t)

\* The earliest arrival of rider r among the entries still waiting.
FirstTick(r) == CHOOSE t \in {e.tick : e \in {x \in enq : x.rider = r}} :
                    \A e \in {x \in enq : x.rider = r} : t <= e.tick

\* The arrival numbers of the entries in s, renumbered from 1 in their order.
Renumber(s) ==
    {[rider |-> e.rider, tick |-> Cardinality({x \in s : x.tick <= e.tick})] : e \in s}

\* One entry of rider r leaves the waiting list.
EnqWithout(r) ==
    IF \E e \in enq : e.rider = r
    THEN Renumber(enq \ {[rider |-> r, tick |-> FirstTick(r)]})
    ELSE enq

\* The riders that call the dispatcher in SpecDisp.
DispRiders == {"r1", "r2"}

NoCall == [op |-> "none", rider |-> None, driver |-> None, ret |-> None]

InitDisp ==
    /\ driver = [d \in Drivers |->
                   [location |-> IF d = "d1" THEN Location(0, 0)
                                 ELSE Location(0, MaxCoord),
                    speed |-> IF d = "d1" THEN 1 ELSE MaxSpeed,
                    is_idle |-> TRUE, rider |-> None, destination |-> NoLocation]]
    /\ rider = [r \in Riders |->
                  [origin |-> IF r = "r1" THEN Location(0, 0)
                              ELSE IF r = "r2" THEN Location(MaxCoord, 0)
                              ELSE Location(MaxCoord, MaxCoord),
                   destination |-> Location(0, 0),
                   patience |-> MaxPatience, status |-> WAITING]]
    /\ waiting_list = <<>>
    /\ available_drivers = <<>>
    /\ activities = [c \in {RIDER, DRIVER} |->
                       [p \in (IF c = RIDER THEN Riders ELSE Drivers) |-> <<>>]]
    /\ crashed = FALSE
    /\ enq = {}
    /\ matched = {}
    /\ events = <<>>
    /\ added = 0
    /\ last = NoCall

DispRequestDriver ==
    /\ ~crashed
    /\ \E r \in DispRiders :
          LET res == request_driver(driver, available_drivers, waiting_list, rider, r)
          IN  /\ Len(res.wl) <= MaxWaiting
              /\ waiting_list' = res.wl
              /\ driver' = res.drv
              /\ crashed' = res.raises
              /\ enq' = IF res.wl # waiting_list
                        THEN enq \cup {[rider |-> r, tick |-> NextTick]}
                        ELSE enq
              /\ last' = [op |-> "request_driver", rider |-> r, driver |-> None,
                          ret |-> res.ret]
    /\ UNCHANGED <<events, rider, available_drivers, activities, added, matched>>

DispRequestRider ==
    /\ ~crashed
    /\ \E d \in Drivers :
          LET res == request_rider(driver, available_drivers, waiting_list, rider, d)
          IN  /\ waiting_list' = res.wl
              /\ available_drivers' = res.ad
              /\ driver' = res.drv
              /\ enq' = IF res.ret # None THEN EnqWithout(res.ret) ELSE enq
              /\ last' = [op |-> "request_rider", rider |-> None, driver |-> None,
                          ret |-> res.ret]
    /\ UNCHANGED <<events, rider, activities, crashed, added, matched>>

DispCancelRide ==
    /\ ~crashed
    /\ \E r \in DispRiders :
          /\ waiting_list' = cancel_ride(waiting_list, r)
          /\ enq' = EnqWithout(r)
          /\ last' = [op |-> "cancel_ride", rider |-> r, driver |-> None,
                      ret |-> None]
    /\ UNCHANGED <<events, driver, rider, available_drivers, activities,
                   crashed, added, matched>>

\* The caller starts the drive of a driver, as the event handlers do.
DriverStartDrive ==
    /\ ~crashed
    /\ \E d \in Drivers, loc \in {rider[r].origin : r \in DispRiders} :
          /\ driver' = [driver EXCEPT ![d] = start_drive(driver[d], loc)]
          /\ last' = NoCall
    /\ UNCHANGED <<events, rider, waiting_list, available_drivers, activities,
                   crashed, added, enq, matched>>

\* The caller ends the drive of a driver whose destination is set.
DriverEndDrive ==
    /\ ~crashed
    /\ \E d \in Drivers :
          /\ driver[d].destination # NoLocation
          /\ driver' = [driver EXCEPT ![d] = end_drive(driver[d])]
          /\ last' = NoCall
    /\ UNCHANGED <<events, rider, waiting_list, available_drivers, activities,
                   crashed, added, enq, matched>>

NextDisp ==
    \/ DispRequestDriver
    \/ DispRequestRider
    \/ DispCancelRide
    \/ DriverStartDrive
    \/ DriverEndDrive

SpecDisp == InitDisp /\ [][NextDisp]_vars

\* -------------------------------------------------------- claims C5 .. C8

IdleKnown == {d \in Range(available_drivers) : driver[d].is_idle}

\* The place of a known driver in the order of registration.
Position(d) == CHOOSE i \in 1..Len(available_drivers) : available_drivers[i] = d

\* C5 (as claimed): with an idle known driver, request_driver returns an idle
\* driver of minimal travel time to rider.origin, the earliest registered
\* among those; it never returns a driver that is not idle.
C5_IdleFastestFirst ==
    (last.op = "request_driver" /\ ~crashed) =>
        /\ last.ret # None => driver[last.ret].is_idle
        /\ IdleKnown # {} =>
              /\ last.ret \in IdleKnown
              /\ \A d \in IdleKnown :
                    LET place == rider[last.rider].origin
                        mine == get_travel_time(driver[last.ret], place)
                        other == get_travel_time(driver[d], place)
                    IN  /\ mine <= other
                        /\ mine = other => Position(last.ret) <= Position(d)

\* C6 (as claimed): each rider appears in the waiting list at most once.
C6_NoDuplicateWaiting ==
    \A i, j \in 1..Len(waiting_list) :
        i # j => waiting_list[i] # waiting_list[j]

\* C7: request_rider serves the waiting list in FIFO order: from a non-empty
\* list it returns the rider whose entry arrived earliest of all the entries
\* still waiting and removes that entry, the others keeping their order; from
\* an empty list it returns no rider and the list stays empty.
C7_RequestRiderFifo ==
    [][last'.op = "request_rider" =>
         IF waiting_list = <<>>
         THEN last'.ret = None /\ waiting_list' = <<>>
         ELSE /\ last'.ret # None
              /\ \A e \in enq : FirstTick(last'.ret) <= e.tick
              /\ waiting_list = <<last'.ret>> \o waiting_list']_vars

\* C7 witness: request_rider has returned a rider and two others still wait.
C7_Witness ==
    /\ last.op = "request_rider"
    /\ last.ret # None
    /\ Len(waiting_list) >= 2
    /\ waiting_list[1] # waiting_list[2]

\* C8 (as claimed): after cancel_ride(rider) the rider is not in the waiting
\* list, the other riders keep their relative order, and when the rider was
\* not in the list nothing changes.
C8_CancelRemoves ==
    [][last'.op = "cancel_ride" =>
         /\ ~crashed'
         /\ last'.rider \notin Range(waiting_list')
         /\ SelectSeq(waiting_list', LAMBDA x : x # last'.rider)
              = SelectSeq(waiting_list, LAMBDA x : x # last'.rider)
         /\ last'.rider \notin Range(waiting_list) =>
              /\ waiting_list' = waiting_list
              /\ available_drivers' = available_drivers
              /\ driver' = driver]_vars

\* ----------------------------------------------------------------- monitor

\* A plausible slip: notify puts the new Activity in front.
notify_front(act, timestamp, category, description, identifier, location) ==
    [act EXCEPT ![category][identifier] =
        <<[time |-> timestamp, description |-> description,
           location |-> location]>> \o @]

\* Monitor.notify: one Activity more at the end of the participant's list.
notify(act, timestamp, category, description, identifier, location) ==
    [act EXCEPT ![category][identifier] =
        Append(@, [time |-> timestamp, description |-> description,
                   location |-> location])]

\* The keys of _activities[category]: the participants with a recorded
\* activity (notify creates a list only to append to it at once).
Recorded(act, category) ==
    {p \in DOMAIN act[category] : act[category][p] # <<>>}

\* The sum of f[x] over the x in S.
RECURSIVE SumOver(_, _)
SumOver(f, S) ==
    IF S = {} THEN 0
    ELSE LET x == CHOOSE y \in S : TRUE
         IN  f[x] + SumOver(f, S \ {x})

\* The float total / count, kept as the pair; the int 0 is 0 / 1.
Ratio(total, count) == [num |-> total, den |-> count]

\* A plausible slip: the wait times are averaged over all the riders recorded.
average_wait_time_all(act) ==
    LET done == {r \in Recorded(act, RIDER) : Len(act[RIDER][r]) >= 2}
        wait_time == SumOver([r \in done |->
                                 act[RIDER][r][2].time - act[RIDER][r][1].time],
                             done)
    IN  IF done = {} THEN Ratio(0, 1)
        ELSE Ratio(wait_time, Cardinality(Recorded(act, RIDER)))

\* Monitor._average_wait_time
average_wait_time(act) ==
    LET done == {r \in Recorded(act, RIDER) : Len(act[RIDER][r]) >= 2}
        wait_time == SumOver([r \in done |->
                                 act[RIDER][r][2].time - act[RIDER][r][1].time],
                             done)
    IN  IF done = {} THEN Ratio(0, 1) ELSE Ratio(wait_time, Cardinality(done))

\* The inner loop of _average_total_distance: the distances between the
\* consecutive activities of one driver.
PathLength(a) ==
    SumOver([i \in 1..(Len(a) - 1) |->
                manhattan_distance(a[i].location, a[i + 1].location)],
            1..(Len(a) - 1))

\* manhattan_distance raises AttributeError on a location that is None.
TotalDistanceRaises(act) ==
    \E d \in Recorded(act, DRIVER) :
        /\ Len(act[DRIVER][d]) >= 2
        /\ \E i \in 1..Len(act[DRIVER][d]) : act[DRIVER][d][i].location = NoLocation

\* A plausible slip: the distances are averaged over the drivers that moved.
average_total_distance_moving(act) ==
    LET known == Recorded(act, DRIVER)
        moving == {d \in known : Len(act[DRIVER][d]) >= 2}
        total_distance == SumOver([d \in known |-> PathLength(act[DRIVER][d])], known)
    IN  IF moving = {} THEN Ratio(0, 1)
        ELSE Ratio(total_distance, Cardinality(moving))

\* Monitor._average_total_distance
average_total_distance(act) ==
    LET known == Recorded(act, DRIVER)
        total_distance == SumOver([d \in known |-> PathLength(act[DRIVER][d])], known)
    IN  IF known = {} THEN Ratio(0, 1)
        ELSE Ratio(total_distance, Cardinality(known))

\* The inner loop of _average_ride_distance over the activities of one
\* driver, from the i-th on: the distance and the number of the pairs found.
RECURSIVE RideScan(_, _, _, _, _, _)
RideScan(a, i, pick_up_spot, drop_off_spot, total, count) ==
    IF i > Len(a) THEN [total |-> total, count |-> count]
    ELSE LET pick == IF a[i].description = PICKUP THEN a[i].location
                     ELSE pick_up_spot
             drop == IF a[i].description = PICKUP THEN drop_off_spot
                     ELSE IF a[i].description = DROPOFF THEN a[i].location
                     ELSE drop_off_spot
         IN  IF pick # NoLocation /\ drop # NoLocation
             THEN RideScan(a, i + 1, NoLocation, NoLocation,
                           total + manhattan_distance(pick, drop), count + 1)
             ELSE RideScan(a, i + 1, pick, drop, total, count)

\* Monitor._average_ride_distance
average_ride_distance(act) ==
    LET known == Recorded(act, DRIVER)
        rides == [d \in known |->
                     RideScan(act[DRIVER][d], 1, NoLocation, NoLocation, 0, 0)]
        total_distance == SumOver([d \in known |-> rides[d].total], known)
        count == SumOver([d \in known |-> rides[d].count], known)
    IN  IF count = 0 THEN Ratio(0, 1) ELSE Ratio(total_distance, count)

NoRatio == Ratio(0, 0)
NoReport == [raises |-> FALSE, rider_wait_time |-> NoRatio,
             driver_total_distance |-> NoRatio, driver_ride_distance |-> NoRatio]

\* Monitor.report: the three averages, or the exception of the second.
report(act) ==
    IF TotalDistanceRaises(act)
    THEN [NoReport EXCEPT !.raises = TRUE]
    ELSE [raises |-> FALSE,
          rider_wait_time |-> average_wait_time(act),
          driver_total_distance |-> average_total_distance(act),
          driver_ride_distance |-> average_ride_distance(act)]

\* ------------------------------------------------------------------ events

RiderRequestEvent(t, r) ==
    [kind |-> "RiderRequest", timestamp |-> t, rider |-> r, driver |-> None]
DriverRequestEvent(t, d) ==
    [kind |-> "DriverRequest", timestamp |-> t, rider |-> None, driver |-> d]
CancellationEvent(t, r) ==
    [kind |-> "Cancellation", timestamp |-> t, rider |-> r, driver |-> None]
PickupEvent(t, r, d) ==
    [kind |-> "Pickup", timestamp |-> t, rider |-> r, driver |-> d]
DropoffEvent(t, r, d) ==
    [kind |-> "Dropoff", timestamp |-> t, rider |-> r, driver |-> d]

\* What a do() leaves behind: the objects it changed, the events it returns,
\* the dispatcher's answer it acted on, and whether it raised instead.
Outcome(drv, rid, wl, ad, act, new, ret, raises) ==
    [driver |-> drv, rider |-> rid, waiting_list |-> wl,
     available_drivers |-> ad, activities |-> act,
     events |-> new, ret |-> ret, raises |-> raises]

\* A plausible slip: RiderRequest.do schedules the Cancellation only for a
\* rider who has been given a driver.
RiderRequestDoNoCancellation(e) ==
    LET r == e.rider
        act1 == notify(activities, e.timestamp, RIDER, REQUEST, r, rider[r].origin)
        res == request_driver(driver, available_drivers, waiting_list, rider, r)
        cancellation == CancellationEvent(e.timestamp + rider[r].patience, r)
    IN  IF res.raises
        THEN Outcome(driver, rider, waiting_list, available_drivers, act1,
                     <<>>, None, TRUE)
        ELSE IF res.ret # None
        THEN LET d == res.ret
                 travel_time == get_travel_time(res.drv[d], rider[r].origin)
                 drv2 == [res.drv EXCEPT ![d] = start_drive(@, rider[r].origin)]
             IN  Outcome(drv2, rider, res.wl, available_drivers, act1,
                         <<PickupEvent(e.timestamp + travel_time, r, d), cancellation>>,
                         d, FALSE)
        ELSE Outcome(res.drv, rider, res.wl, available_drivers, act1,
                     <<>>, None, FALSE)

\* RiderRequest.do
RiderRequestDo(e) ==
    LET r == e.rider
        act1 == notify(activities, e.timestamp, RIDER, REQUEST, r, rider[r].origin)
        res == request_driver(driver, available_drivers, waiting_list, rider, r)
        cancellation == CancellationEvent(e.timestamp + rider[r].patience, r)
    IN  IF res.raises
        THEN Outcome(driver, rider, waiting_list, available_drivers, act1,
                     <<>>, None, TRUE)
        ELSE IF res.ret # None
        THEN LET d == res.ret
                 travel_time == get_travel_time(res.drv[d], rider[r].origin)
                 drv2 == [res.drv EXCEPT ![d] = start_drive(@, rider[r].origin)]
             IN  Outcome(drv2, rider, res.wl, available_drivers, act1,
                         <<PickupEvent(e.timestamp + travel_time, r, d), cancellation>>,
                         d, FALSE)
        ELSE Outcome(res.drv, rider, res.wl, available_drivers, act1,
                     <<cancellation>>, None, FALSE)

\* A plausible slip: DriverRequest.do schedules the Pickup without starting
\* the drive.
DriverRequestDoNoDrive(e) ==
    LET d == e.driver
        act1 == notify(activities, e.timestamp, DRIVER, REQUEST, d, driver[d].location)
        res == request_rider(driver, available_drivers, waiting_list, rider, d)
    IN  IF res.ret = None
        THEN Outcome(res.drv, rider, res.wl, res.ad, act1, <<>>, None, FALSE)
        ELSE Outcome(res.drv, rider, res.wl, res.ad, act1,
                     <<PickupEvent(e.timestamp
                                   + get_travel_time(res.drv[d], res.drv[d].destination),
                                   res.ret, d)>>,
                     res.ret, FALSE)

\* DriverRequest.do
DriverRequestDo(e) ==
    LET d == e.driver
        act1 == notify(activities, e.timestamp, DRIVER, REQUEST, d, driver[d].location)
        res == request_rider(driver, available_drivers, waiting_list, rider, d)
    IN  IF res.ret = None
        THEN Outcome(res.drv, rider, res.wl, res.ad, act1, <<>>, None, FALSE)
        ELSE IF TravelRaises(res.drv[d], res.drv[d].destination)
        THEN Outcome(res.drv, rider, res.wl, res.ad, act1, <<>>, res.ret, TRUE)
        ELSE LET travel_time == get_travel_time(res.drv[d], res.drv[d].destination)
                 drv2 == [res.drv EXCEPT ![d] = start_drive(@, res.drv[d].destination)]
             IN  Outcome(drv2, rider, res.wl, res.ad, act1,
                         <<PickupEvent(e.timestamp + travel_time, res.ret, d)>>,
                         res.ret, FALSE)

\* A plausible slip: Cancellation.do cancels without looking at the status.
CancellationDoAlways(e) ==
    LET r == e.rider
    IN  Outcome(driver, [rider EXCEPT ![r].status = CANCELLED],
                cancel_ride(waiting_list, r), available_drivers,
                notify(activities, e.timestamp, RIDER, CANCEL, r, rider[r].origin),
                <<>>, None, FALSE)

\* A plausible slip: Cancellation.do forgets to tell the dispatcher.
CancellationDoKeepWaiting(e) ==
    LET r == e.rider
    IN  IF rider[r].status = WAITING
        THEN Outcome(driver, [rider EXCEPT ![r].status = CANCELLED],
                     waiting_list, available_drivers,
                     notify(activities, e.timestamp, RIDER, CANCEL, r, rider[r].origin),
                     <<>>, None, FALSE)
        ELSE Outcome(driver, rider, waiting_list, available_drivers, activities,
                     <<>>, None, FALSE)

\* Cancellation.do
CancellationDo(e) ==
    LET r == e.rider
    IN  IF rider[r].status = WAITING
        THEN Outcome(driver, [rider EXCEPT ![r].status = CANCELLED],
                     cancel_ride(waiting_list, r), available_drivers,
                     notify(activities, e.timestamp, RIDER, CANCEL, r, rider[r].origin),
                     <<>>, None, FALSE)
        ELSE Outcome(driver, rider, waiting_list, available_drivers, activities,
                     <<>>, None, FALSE)

\* Pickup.do
PickupDo(e) ==
    LET r == e.rider
        d == e.driver
        act1 == notify(activities, e.timestamp, DRIVER, PICKUP, d, driver[d].location)
        act2 == notify(act1, e.timestamp, RIDER, PICKUP, r, rider[r].origin)
        \* the driver arrives
        drv1 == [driver EXCEPT ![d].location = driver[d].destination]
    IN  IF rider[r].status = CANCELLED
        THEN IF Len(waiting_list) = 0
             THEN Outcome(drv1, rider, waiting_list, available_drivers, act2,
                          <<DriverRequestEvent(e.timestamp, d)>>, None, FALSE)
             ELSE LET res == request_rider(drv1, available_drivers, waiting_list, rider, d)
                  IN  Outcome(res.drv, rider, res.wl, res.ad, act2,
                              <<DriverRequestEvent(e.timestamp, d)>>, res.ret, FALSE)
        ELSE LET rid2 == [rider EXCEPT ![r].status = SATISFIED]
                 drv2 == [drv1 EXCEPT ![d] = start_ride(@, r, rider[r].destination)]
             IN  IF TravelRaises(drv2[d], rider[r].destination)
                 THEN Outcome(drv2, rid2, waiting_list, available_drivers, act2,
                              <<>>, None, TRUE)
                 ELSE LET travel_time == get_travel_time(drv2[d], rider[r].destination)
                      IN  Outcome(drv2, rid2, waiting_list, available_drivers, act2,
                                  <<DropoffEvent(e.timestamp + travel_time, r, d)>>,
                                  None, FALSE)

\* Dropoff.do
DropoffDo(e) ==
    LET r == e.rider
        d == e.driver
        act1 == notify(activities, e.timestamp, DRIVER, DROPOFF, d, driver[d].location)
        act2 == notify(act1, e.timestamp, RIDER, DROPOFF, r, rider[r].destination)
        rid2 == [rider EXCEPT ![r].status = SATISFIED]
        drv1 == [driver EXCEPT ![d] = end_ride(@)]
        res == request_rider(drv1, available_drivers, waiting_list, rider, d)
    IN  Outcome(res.drv, rid2, res.wl, res.ad, act2,
                <<DriverRequestEvent(e.timestamp, d)>>, res.ret, FALSE)

\* ------------------------------------------------- Spec: a simulation run

\* The corners of the grid the participants of a run start from and go to.
DriverStarts == {Location(0, 0), Location(0, MaxCoord)}
RiderOrigins == {Location(0, 0), Location(MaxCoord, 0)}
RiderDestinations == {Location(0, 0), Location(MaxCoord, MaxCoord)}
Speeds == {1, MaxSpeed}
Patiences == {0, MaxPatience}
Times == {0, MaxTime}
\* The third rider asks with the others or after they have been served.
LateTimes == {0, MaxTime + 2}

\* The riders and drivers of the input, in the order of the input.
SimDrivers == <<"d1", "d2">>
SimRiders == <<"r1", "r2", "r3">>

\* The initial events: one DriverRequest per driver, one RiderRequest per rider.
InitialEvents(dt, rt) ==
    [i \in 1..Len(SimDrivers) |-> DriverRequestEvent(dt[SimDrivers[i]], SimDrivers[i])]
    \o [i \in 1..Len(SimRiders) |-> RiderRequestEvent(rt[SimRiders[i]], SimRiders[i])]

NoEvent == [kind |-> "none", timestamp |-> 0, rider |-> None, driver |-> None]

Init ==
    /\ driver \in [Drivers ->
          [location : DriverStarts, speed : Speeds, is_idle : {TRUE},
           rider : {None}, destination : {NoLocation}]]
    /\ rider \in [Riders ->
          [origin : RiderOrigins, destination : RiderDestinations,
           patience : Patiences, status : {WAITING}]]
    /\ rider["r3"].origin = Location(0, 0)
    /\ rider["r3"].destination = Location(0, 0)
    /\ rider["r3"].patience = MaxPatience
    /\ \E dt \in [Drivers -> Times], rt \in [Riders -> Times \cup LateTimes] :
          /\ rt["r1"] \in Times
          /\ rt["r2"] \in Times
          /\ rt["r3"] \in LateTimes
          /\ events = PQAddAll(<<>>, InitialEvents(dt, rt))
    /\ waiting_list = <<>>
    /\ available_drivers = <<>>
    /\ activities = [c \in {RIDER, DRIVER} |->
                       [p \in (IF c = RIDER THEN Riders ELSE Drivers) |-> <<>>]]
    /\ crashed = FALSE
    /\ enq = {}
    /\ matched = {}
    /\ added = 0
    /\ last = [event |-> NoEvent, ret |-> None, emitted |-> <<>>]

\* RiderRequest.do has found a driver whose travel time to the rider's origin
\* is strictly less than the rider's patience.
MatchedInTime(e, out) ==
    /\ e.kind = "RiderRequest"
    /\ ~out.raises
    /\ out.ret # None
    /\ get_travel_time(driver[out.ret], rider[e.rider].origin) < rider[e.rider].patience

\* One turn of the simulation loop: the earliest event leaves the queue, its
\* do() runs, and the events it returns are added to the queue in order.  An
\* exception raised by do() ends the run.
RunEvent(out) ==
    /\ driver' = out.driver
    /\ rider' = out.rider
    /\ waiting_list' = out.waiting_list
    /\ available_drivers' = out.available_drivers
    /\ activities' = out.activities
    /\ crashed' = out.raises
    /\ events' = PQAddAll(PQRemoveItems(events), out.events)
    /\ last' = [event |-> Head(events), ret |-> out.ret, emitted |-> out.events]
    /\ matched' = IF MatchedInTime(Head(events), out)
                  THEN matched \cup {Head(events).rider}
                  ELSE matched
    /\ UNCHANGED <<added, enq>>

Running == ~crashed /\ events # <<>>

DoRiderRequest ==
    /\ Running
    /\ Head(events).kind = "RiderRequest"
    /\ RunEvent(RiderRequestDo(Head(events)))

DoDriverRequest ==
    /\ Running
    /\ Head(events).kind = "DriverRequest"
    /\ RunEvent(DriverRequestDo(Head(events)))

DoCancellation ==
    /\ Running
    /\ Head(events).kind = "Cancellation"
    /\ RunEvent(CancellationDo(Head(events)))

DoPickup ==
    /\ Running
    /\ Head(events).kind = "Pickup"
    /\ RunEvent(PickupDo(Head(events)))

DoDropoff ==
    /\ Running
    /\ Head(events).kind = "Dropoff"
    /\ RunEvent(DropoffDo(Head(events)))

Next ==
    \/ DoRiderRequest
    \/ DoDriverRequest
    \/ DoCancellation
    \/ DoPickup
    \/ DoDropoff

Spec == Init /\ [][Next]_vars

\* The runs of FairSpec: both drivers start at (0, MaxCoord) with speed 1 and
\* ask at time 0, the first two riders ask at MaxTime, the rest of the input
\* varies as in Init.
InitFair ==
    /\ Init
    /\ \A d \in Drivers :
          driver[d].location = Location(0, MaxCoord) /\ driver[d].speed = 1
    /\ \A k \in 1..Len(events) :
          /\ events[k].rider \in {"r1", "r2"} => events[k].timestamp = MaxTime
          /\ events[k].kind = "DriverRequest" => events[k].timestamp = 0

\* The loop keeps turning while the queue holds an event and no exception has
\* ended the run.
FairSpec == InitFair /\ [][Next]_vars /\ WF_vars(Next)

\* ---------------------------------------------------- claims C1, C2, C9, C10

\* C1 (as claimed): between two events every driver has a destination exactly
\* when it is not idle.
C1_DestinationIffDriving ==
    \A d \in Drivers : (driver[d].destination # NoLocation) <=> ~driver[d].is_idle

\* C2: once a rider is Cancelled or Satisfied, no event changes its status.
C2_StatusMonotonic ==
    [][\A r \in Riders :
          rider[r].status \in {CANCELLED, SATISFIED} =>
              rider'[r].status = rider[r].status]_vars

\* C2 witness: the Cancellation of a rider who is Satisfied has just run, and
\* the Pickup of another rider, who was Cancelled by then, has run before.
C2_Witness ==
    /\ last.event.kind = "Cancellation"
    /\ rider[last.event.rider].status = SATISFIED
    /\ \E r \in Riders :
          /\ rider[r].status = CANCELLED
          /\ \E k \in 1..Len(activities[RIDER][r]) :
                activities[RIDER][r][k].description = PICKUP

EmittedOfKind(kind) == SelectSeq(last.emitted, LAMBDA x : x.kind = kind)

\* C9 (as claimed): RiderRequest.do at t always emits exactly one Cancellation
\* of the rider at t + patience; with a driver returned it also emits exactly
\* one Pickup(rider, driver) at t + the driver's travel time to rider.origin
\* and leaves the driver not idle, heading to rider.origin; with no driver it
\* emits no Pickup and the rider is in the waiting list.
C9_RiderRequestEmits ==
    last.event.kind = "RiderRequest" =>
        LET r == last.event.rider
            t == last.event.timestamp
        IN  /\ EmittedOfKind("Cancellation")
                 = <<CancellationEvent(t + rider[r].patience, r)>>
            /\ IF last.ret # None
               THEN /\ EmittedOfKind("Pickup")
                         = <<PickupEvent(t + get_travel_time(driver[last.ret],
                                                             rider[r].origin),
                                         r, last.ret)>>
                    /\ ~driver[last.ret].is_idle
                    /\ driver[last.ret].destination = rider[r].origin
                    /\ Len(last.emitted) = 2
               ELSE /\ Len(last.emitted) = 1
                    /\ r \in Range(waiting_list)

\* C10 (as claimed): DriverRequest.do at t: with a waiting rider returned it
\* emits exactly one Pickup(rider, driver) at t + the travel time from the
\* driver's location to rider.origin and leaves the driver not idle, heading
\* to rider.origin; with no rider waiting it emits no events.
C10_DriverRequestEmits ==
    last.event.kind = "DriverRequest" =>
        LET d == last.event.driver
            t == last.event.timestamp
        IN  IF last.ret # None
            THEN /\ last.emitted
                      = <<PickupEvent(t + get_travel_time(driver[d],
                                                          rider[last.ret].origin),
                                      last.ret, d)>>
                 /\ ~driver[d].is_idle
                 /\ driver[d].destination = rider[last.ret].origin
            ELSE last.emitted = <<>>

\* C10 witness: a DriverRequest has been handed a waiting rider whose origin
\* is some way off, so that the Pickup comes later than the request.
C10_Witness ==
    /\ last.event.kind = "DriverRequest"
    /\ last.ret # None
    /\ ~crashed
    /\ Len(last.emitted) = 1
    /\ last.emitted[1].timestamp > last.event.timestamp

\* ------------------------------------------------------- claims C11 .. C16

\* C11: Cancellation.do emits no events.  For a Waiting rider it sets the
\* status to Cancelled, takes the rider out of the waiting list and records
\* exactly one rider Cancel activity; for a rider that is not Waiting it
\* changes nothing: statuses, waiting list, drivers and monitor log stay.
C11_CancellationEffect ==
    [][last'.event.kind = "Cancellation" =>
         LET r == last'.event.rider
             t == last'.event.timestamp
         IN  /\ last'.emitted = <<>>
             /\ ~crashed'
             /\ driver' = driver
             /\ available_drivers' = available_drivers
             /\ IF rider[r].status = WAITING
                THEN /\ rider' = [rider EXCEPT ![r].status = CANCELLED]
                     /\ r \notin Range(waiting_list')
                     /\ waiting_list' = SelectSeq(waiting_list, LAMBDA x : x # r)
                     /\ activities' =
                           [activities EXCEPT ![RIDER][r] =
                               Append(@, [time |-> t, description |-> CANCEL,
                                          location |-> rider[r].origin])]
                ELSE /\ rider' = rider
                     /\ waiting_list' = waiting_list
                     /\ activities' = activities]_vars

\* C11 witness: the Cancellation of a rider who was waiting with no driver
\* has just run and recorded its Cancel activity, while another rider waits.
C11_Witness ==
    /\ last.event.kind = "Cancellation"
    /\ LET r == last.event.rider
           log == activities[RIDER][r]
       IN  /\ rider[r].status = CANCELLED
           /\ Len(log) = 2
           /\ log[2].description = CANCEL
           /\ log[2].time = last.event.timestamp
           /\ \A d \in Drivers : driver[d].rider # r
           /\ \A k \in 1..Len(events) : events[k].rider # r
    /\ waiting_list # <<>>

\* C12 (as claimed): Pickup.do at t emits exactly one event.  For a Cancelled
\* rider it is a DriverRequest of the driver at t, and the rider stays
\* Cancelled; otherwise the rider is Satisfied, the driver is not idle and
\* heads to rider.destination, and the event is a Dropoff(rider, driver) at
\* t + the travel time from rider.origin to rider.destination.
C12_PickupEmits ==
    last.event.kind = "Pickup" =>
        LET r == last.event.rider
            d == last.event.driver
            t == last.event.timestamp
        IN  IF rider[r].status = CANCELLED
            THEN last.emitted = <<DriverRequestEvent(t, d)>>
            ELSE /\ rider[r].status = SATISFIED
                 /\ ~driver[d].is_idle
                 /\ driver[d].destination = rider[r].destination
                 /\ last.emitted =
                       <<DropoffEvent(t + PyRound(manhattan_distance(rider[r].origin,
                                                                     rider[r].destination),
                                                  driver[d].speed),
                                      r, d)>>

\* C13 (as claimed): after Dropoff.do(rider, driver) at t the rider is
\* Satisfied, the driver is idle, has no rider and is at rider.destination,
\* and exactly one event is emitted: a DriverRequest of that driver at t.
C13_DropoffEffect ==
    last.event.kind = "Dropoff" =>
        LET r == last.event.rider
            d == last.event.driver
            t == last.event.timestamp
        IN  /\ rider[r].status = SATISFIED
            /\ driver[d].is_idle
            /\ driver[d].rider = None
            /\ driver[d].location = rider[r].destination
            /\ last.emitted = <<DriverRequestEvent(t, d)>>

\* C14 (as claimed): when RiderRequest.do matches the rider with a driver
\* whose travel time to rider.origin is strictly less than the patience, the
\* rider's Pickup is processed before its Cancellation, no Cancel activity is
\* ever recorded for it, its Cancellation has no effect, and the rider ends
\* the run Satisfied.
C14_PickupBeforeCancellation ==
    \A r \in matched :
        LET pick == {k \in 1..Len(events) :
                        events[k].kind = "Pickup" /\ events[k].rider = r}
            canc == {k \in 1..Len(events) :
                        events[k].kind = "Cancellation" /\ events[k].rider = r}
            log == activities[RIDER][r]
        IN  /\ \A p \in pick, c \in canc : p < c
            /\ pick # {} => canc # {}
            /\ \A k \in 1..Len(log) : log[k].description # CANCEL
            /\ rider[r].status # CANCELLED
            /\ (last.event.kind = "Cancellation" /\ last.event.rider = r)
                  => rider[r].status = SATISFIED
            /\ (events = <<>> \/ crashed) => rider[r].status = SATISFIED

\* C15: every event a do() returns carries a timestamp greater than or equal
\* to that of the event that produced it, and the events of a run are
\* processed in non-decreasing timestamp order.
C15_ClockMonotonic ==
    [][/\ \A k \in 1..Len(last'.emitted) :
             last'.emitted[k].timestamp >= last'.event.timestamp
       /\ last'.event.timestamp >= last.event.timestamp]_vars

\* C15 witness: an event processed after time 0 has returned an event of a
\* strictly later time while another event of the current time is pending.
C15_Witness ==
    /\ last.event.timestamp > 0
    /\ \E k \in 1..Len(last.emitted) :
          last.emitted[k].timestamp > last.event.timestamp
    /\ events # <<>>
    /\ events[1].timestamp = last.event.timestamp
    /\ events[Len(events)].timestamp > events[1].timestamp + 1

\* C16 (as claimed): the simulation loop terminates with the event queue
\* empty.
C16_QueueDrains == <>(events = <<>>)

\* ------------------------------------------------------------- claim C17

\* C17 (as claimed): PriorityQueue.remove on an empty queue fails; it does
\* not return normally with a sentinel value.
C17_RemoveEmptyFails ==
    (last.op = "remove" /\ last.ret = NoItem) => crashed

\* --------------------------------- SpecDrv: the calls on one Driver object

\* No value returned: the call returns None or raised.
NoTime == -1

\* The driver the calls of SpecDrv are made on.
TheDriver == "d1"

InitDrv ==
    /\ \E loc \in Locs, s \in 1..MaxSpeed :
          driver = [d \in Drivers |->
                      [location |-> IF d = TheDriver THEN loc ELSE Location(0, 0),
                       speed |-> IF d = TheDriver THEN s ELSE 1,
                       is_idle |-> TRUE, rider |-> None, destination |-> NoLocation]]
    /\ rider = [r \in Riders |->
                  [origin |-> Location(0, 0),
                   destination |-> IF r = "r1" THEN Location(0, 0)
                                   ELSE Location(MaxCoord, MaxCoord),
                   patience |-> MaxPatience, status |-> WAITING]]
    /\ waiting_list = <<>>
    /\ available_drivers = <<>>
    /\ activities = [c \in {RIDER, DRIVER} |->
                       [p \in (IF c = RIDER THEN Riders ELSE Drivers) |-> <<>>]]
    /\ crashed = FALSE
    /\ enq = {}
    /\ matched = {}
    /\ events = <<>>
    /\ added = 0
    /\ last = [op |-> "init", arg |-> NoLocation, ret |-> NoTime]

\* driver.get_travel_time(destination)
DrvGetTravelTime ==
    /\ \E destination \in Locs :
          LET raises == TravelRaises(driver[TheDriver], destination)
          IN  /\ crashed' = raises
              /\ last' = [op |-> "get_travel_time", arg |-> destination,
                          ret |-> IF raises THEN NoTime
                                  ELSE get_travel_time(driver[TheDriver], destination)]
    /\ UNCHANGED <<events, driver, rider, waiting_list, available_drivers,
                   activities, added, enq, matched>>

\* driver.start_drive(location): the fields are set, then the travel time is
\* computed and returned.
DrvStartDrive ==
    /\ \E location \in Locs :
          LET raises == TravelRaises(driver[TheDriver], location)
          IN  /\ driver' = [driver EXCEPT ![TheDriver] = start_drive(@, location)]
              /\ crashed' = raises
              /\ last' = [op |-> "start_drive", arg |-> location,
                          ret |-> IF raises THEN NoTime
                                  ELSE get_travel_time(driver[TheDriver], location)]
    /\ UNCHANGED <<events, rider, waiting_list, available_drivers,
                   activities, added, enq, matched>>

\* driver.end_drive(), whatever the destination is.
DrvEndDrive ==
    /\ driver' = [driver EXCEPT ![TheDriver] = end_drive(@)]
    /\ crashed' = FALSE
    /\ last' = [op |-> "end_drive", arg |-> NoLocation, ret |-> NoTime]
    /\ UNCHANGED <<events, rider, waiting_list, available_drivers,
                   activities, added, enq, matched>>

\* driver.start_ride(rider)
DrvStartRide ==
    /\ \E r \in DispRiders :
          LET raises == TravelRaises(driver[TheDriver], rider[r].destination)
          IN  /\ driver' = [driver EXCEPT
                              ![TheDriver] = start_ride(@, r, rider[r].destination)]
              /\ crashed' = raises
              /\ last' = [op |-> "start_ride", arg |-> rider[r].destination,
                          ret |-> IF raises THEN NoTime
                                  ELSE get_travel_time(driver[TheDriver],
                                                       rider[r].destination)]
    /\ UNCHANGED <<events, rider, waiting_list, available_drivers,
                   activities, added, enq, matched>>

\* driver.end_ride(), whatever the destination is.
DrvEndRide ==
    /\ driver' = [driver EXCEPT ![TheDriver] = end_ride(@)]
    /\ crashed' = FALSE
    /\ last' = [op |-> "end_ride", arg |-> NoLocation, ret |-> NoTime]
    /\ UNCHANGED <<events, rider, waiting_list, available_drivers,
                   activities, added, enq, matched>>

NextDrv ==
    \/ DrvGetTravelTime
    \/ DrvStartDrive
    \/ DrvEndDrive
    \/ DrvStartRide
    \/ DrvEndRide

SpecDrv == InitDrv /\ [][NextDrv]_vars

\* -------------------------------------------------------- claims C18, C19

\* C18 (as claimed): get_travel_time returns distance / speed rounded to the
\* nearest integer with halves rounded up: floor((2*d + s) / (2*s)).
C18_RoundHalfUp ==
    (last.op = "get_travel_time" /\ ~crashed) =>
        LET d == manhattan_distance(driver[TheDriver].location, last.arg)
            s == driver[TheDriver].speed
        IN  last.ret = (2 * d + s) \div (2 * s)

\* C19 (as claimed): end_drive and end_ride on a driver whose destination is
\* unset fail instead of completing: the driver is left as it was, and its
\* location is never overwritten with an unset value.
C19_EndNeedsDestination ==
    [][(/\ last'.op \in {"end_drive", "end_ride"}
        /\ driver[TheDriver].destination = NoLocation)
          => (crashed' /\ driver' = driver)]_vars

\* ------------------------------------ SpecMon: the calls on one Monitor

\* Calls to Monitor.notify in one run of SpecMon.
MaxNotes == 2

\* The arguments of the notify calls of SpecMon.
RiderNotes ==
    [category : {RIDER}, identifier : DispRiders, time : Times,
     description : {PICKUP, CANCEL}, location : {Location(0, 0)}]
DriverNotes ==
    [category : {DRIVER}, identifier : Drivers, time : {MaxTime},
     description : {REQUEST, PICKUP, DROPOFF},
     location : DriverStarts \cup {NoLocation}]

NoNote == [category |-> RIDER, identifier |-> None, time |-> 0,
           description |-> REQUEST, location |-> NoLocation]

\* A new Monitor.
NoActivities ==
    [c \in {RIDER, DRIVER} |->
        [p \in (IF c = RIDER THEN Riders ELSE Drivers) |-> <<>>]]

\* A Monitor that has been notified of the requests of two riders and of the
\* drivers, all at time 0 at (0, 0).
RequestsNotified ==
    [c \in {RIDER, DRIVER} |->
        [p \in (IF c = RIDER THEN Riders ELSE Drivers) |->
            IF p \in DispRiders \cup Drivers
            THEN NoActivities[c][p]
                 \o <<[time |-> 0, description |-> REQUEST,
                       location |-> Location(0, 0)]>>
            ELSE <<>>]]

InitMon ==
    /\ driver = [d \in Drivers |->
                   [location |-> Location(0, 0), speed |-> 1, is_idle |-> TRUE,
                    rider |-> None, destination |-> NoLocation]]
    /\ rider = [r \in Riders |->
                  [origin |-> Location(0, 0), destination |-> Location(0, 0),
                   patience |-> 0, status |-> WAITING]]
    /\ waiting_list = <<>>
    /\ available_drivers = <<>>
    /\ crashed = FALSE
    /\ enq = {}
    /\ matched = {}
    /\ activities \in {NoActivities, RequestsNotified}
    /\ events = <<>>
    /\ added = 0
    /\ last = [op |-> "init", note |-> NoNote, ret |-> NoReport]

MonNotify ==
    /\ added < MaxNotes
    /\ \E n \in RiderNotes \cup DriverNotes :
          /\ activities' = notify(activities, n.time, n.category, n.description,
                                  n.identifier, n.location)
          /\ last' = [op |-> "notify", note |-> n, ret |-> NoReport]
    /\ crashed' = FALSE
    /\ added' = added + 1
    /\ UNCHANGED <<events, driver, rider, waiting_list, available_drivers,
                   enq, matched>>

MonReport ==
    /\ crashed' = report(activities).raises
    /\ last' = [op |-> "report", note |-> NoNote, ret |-> report(activities)]
    /\ UNCHANGED <<events, driver, rider, waiting_list, available_drivers,
                   activities, added, enq, matched>>

NextMon == MonNotify \/ MonReport

SpecMon == InitMon /\ [][NextMon]_vars

\* ------------------------------------------------------------- claim C20

\* C20: notify always succeeds and is append-only: it adds exactly one
\* activity record at the end of the sequence of the given participant in
\* the given category and leaves every record made before, of that
\* participant and of all others, unchanged and in the same order; report
\* does not change the log.
C20_NotifyAppendOnly ==
    [][/\ last'.op = "notify" =>
             LET n == last'.note
             IN  /\ ~crashed'
                 /\ activities'[n.category][n.identifier] =
                       Append(activities[n.category][n.identifier],
                              [time |-> n.time, description |-> n.description,
                               location |-> n.location])
                 /\ \A c \in {RIDER, DRIVER} : \A p \in DOMAIN activities[c] :
                       (c # n.category \/ p # n.identifier)
                           => activities'[c][p] = activities[c][p]
       /\ last'.op = "report" => activities' = activities]_vars

\* C20 witness: a report has been made of a log that notify built: a driver
\* with three records, the last two different, the others with one record.
C20_Witness ==
    /\ last.op = "report"
    /\ ~crashed
    /\ \E d \in Drivers :
          /\ Len(activities[DRIVER][d]) = 3
          /\ activities[DRIVER][d][2] # activities[DRIVER][d][3]
    /\ \E d \in Drivers : Len(activities[DRIVER][d]) = 1
    /\ \A r \in DispRiders : Len(activities[RIDER][r]) = 1

\* ------------------------------------------------------- claims C21 .. C23

\* The ratio a report returned has the value total / count.
IsRatio(ratio, total, count) ==
    ratio.den > 0 /\ ratio.num * count = total * ratio.den

\* Every location in the drivers' records is a Location.
DriverRecordsLocated ==
    \A d \in Drivers : \A i \in 1..Len(activities[DRIVER][d]) :
        activities[DRIVER][d][i].location # NoLocation

\* C21: _average_wait_time returns the sum, over the riders with at least
\* two recorded activities, of (time of the 2nd - time of the 1st), divided
\* by the number of such riders, and 0 when no rider qualifies.
C21_AverageWaitTime ==
    (last.op = "report" /\ ~crashed) =>
        LET done == {r \in Riders : Len(activities[RIDER][r]) >= 2}
            Wait(r) == IF r \in done
                       THEN activities[RIDER][r][2].time - activities[RIDER][r][1].time
                       ELSE 0
        IN  IF done = {}
            THEN last.ret.rider_wait_time.num = 0
            ELSE IsRatio(last.ret.rider_wait_time,
                         Wait("r1") + Wait("r2") + Wait("r3"), Cardinality(done))

\* C21 witness: a report of a log in which two riders have two activities
\* each, with different waits.
C21_Witness ==
    /\ last.op = "report"
    /\ ~crashed
    /\ \A r \in DispRiders : Len(activities[RIDER][r]) = 2
    /\ activities[RIDER]["r1"][2].time # activities[RIDER]["r2"][2].time

\* The distance along the recorded locations of one driver.
RECURSIVE Walk(_)
Walk(a) ==
    IF Len(a) < 2 THEN 0
    ELSE (IF a[1].location.n > a[2].location.n
          THEN a[1].location.n - a[2].location.n
          ELSE a[2].location.n - a[1].location.n)
         + (IF a[1].location.m > a[2].location.m
            THEN a[1].location.m - a[2].location.m
            ELSE a[2].location.m - a[1].location.m)
         + Walk(Tail(a))

\* C22: for records whose locations are Locations, _average_total_distance
\* returns the sum over all drivers of the Manhattan distances between
\* consecutive recorded locations, divided by the number of drivers with at
\* least one record, and 0 when there are no drivers.
C22_AverageTotalDistance ==
    (last.op = "report" /\ DriverRecordsLocated) =>
        LET known == {d \in Drivers : Len(activities[DRIVER][d]) >= 1}
        IN  /\ ~crashed
            /\ IF known = {}
               THEN last.ret.driver_total_distance.num = 0
               ELSE IsRatio(last.ret.driver_total_distance,
                            Walk(activities[DRIVER]["d1"])
                              + Walk(activities[DRIVER]["d2"]),
                            Cardinality(known))

\* C22 witness: a report of a log in which one driver has moved twice and
\* the other has a single record.
C22_Witness ==
    /\ last.op = "report"
    /\ ~crashed
    /\ DriverRecordsLocated
    /\ \E d, e \in Drivers :
          /\ Len(activities[DRIVER][d]) = 3
          /\ Walk(activities[DRIVER][d]) = 2 * MaxCoord
          /\ Len(activities[DRIVER][e]) = 1

\* The completed rides of one driver as claimed: a Pickup record followed
\* later by the next Dropoff record; pick is the Pickup not yet matched.
RECURSIVE CompletedRides(_, _, _, _)
CompletedRides(a, pick, total, count) ==
    IF a = <<>> THEN [total |-> total, count |-> count]
    ELSE IF Head(a).description = PICKUP
    THEN CompletedRides(Tail(a), Head(a).location, total, count)
    ELSE IF Head(a).description = DROPOFF /\ pick # NoLocation
    THEN CompletedRides(Tail(a), NoLocation,
                        total + manhattan_distance(pick, Head(a).location),
                        count + 1)
    ELSE CompletedRides(Tail(a), pick, total, count)

\* C23 (as claimed): for records whose locations are Locations,
\* _average_ride_distance returns the mean, over the completed rides of all
\* drivers, of the Manhattan distance between the Pickup and the Dropoff
\* location; a Dropoff not preceded by an unmatched Pickup forms no pair; the
\* result is 0 when there is no completed pair.
C23_AverageRideDistance ==
    (last.op = "report" /\ DriverRecordsLocated) =>
        LET r1 == CompletedRides(activities[DRIVER]["d1"], NoLocation, 0, 0)
            r2 == CompletedRides(activities[DRIVER]["d2"], NoLocation, 0, 0)
        IN  /\ ~crashed
            /\ IF r1.count + r2.count = 0
               THEN last.ret.driver_ride_distance.num = 0
               ELSE IsRatio(last.ret.driver_ride_distance,
                            r1.total + r2.total, r1.count + r2.count)


\* --------------------------- SpecLoc: Location and manhattan_distance alone

\* Largest row / column given to Location and manhattan_distance in SpecLoc.
MaxGrid == 3

\* The object Location(row, column) leaves behind: with a negative argument
\* __init__ prints a message and returns, and the object has no attributes.
LocationInit(row, column) ==
    IF row >= 0 /\ column >= 0
    THEN [raises |-> FALSE, attrs |-> {"m", "n"}, m |-> column, n |-> row]
    ELSE [raises |-> FALSE, attrs |-> {}, m |-> -1, n |-> -1]

NoObject == [raises |-> FALSE, attrs |-> {}, m |-> -1, n |-> -1]

GridLocs == {Location(r, c) : r \in 0..MaxGrid, c \in 0..MaxGrid}

InitLoc ==
    /\ InitEntities
    /\ events = <<>>
    /\ added = 0
    /\ last = [op |-> "init", a |-> NoLocation, b |-> NoLocation, ret |-> 0,
               obj |-> NoObject]

\* Location(row, column)
LocInit ==
    /\ \E row \in -1..MaxGrid, column \in -1..MaxGrid :
          /\ last' = [op |-> "Location", a |-> [n |-> row, m |-> column],
                      b |-> NoLocation, ret |-> 0,
                      obj |-> LocationInit(row, column)]
          /\ crashed' = LocationInit(row, column).raises
    /\ UNCHANGED <<events, driver, rider, waiting_list, available_drivers,
                   activities, added, enq, matched>>

\* manhattan_distance(a, b)
LocDistance ==
    /\ \E a \in GridLocs, b \in GridLocs :
          last' = [op |-> "manhattan_distance", a |-> a, b |-> b,
                   ret |-> manhattan_distance(a, b), obj |-> NoObject]
    /\ crashed' = FALSE
    /\ UNCHANGED <<events, driver, rider, waiting_list, available_drivers,
                   activities, added, enq, matched>>

NextLoc == LocInit \/ LocDistance

SpecLoc == InitLoc /\ [][NextLoc]_vars

\* -------------------------------------------------------- claims C24, C25

\* C24: manhattan_distance(a, b) is |row difference| + |column difference|,
\* it is symmetric, and it is 0 when a equals b.
C24_ManhattanSymmetric ==
    last.op = "manhattan_distance" =>
        LET rows == IF last.a.n > last.b.n THEN last.a.n - last.b.n
                    ELSE last.b.n - last.a.n
            columns == IF last.a.m > last.b.m THEN last.a.m - last.b.m
                       ELSE last.b.m - last.a.m
        IN  /\ last.ret = rows + columns
            /\ last.ret = manhattan_distance(last.b, last.a)
            /\ last.a = last.b => last.ret = 0

\* C24 witness: the distance between two locations, the first further down
\* and further left than the second.
C24_Witness ==
    /\ last.op = "manhattan_distance"
    /\ last.a.n = last.b.n + MaxGrid
    /\ last.b.m = last.a.m + 1
    /\ last.ret = MaxGrid + 1

\* C25 (as claimed): constructing a Location with a negative row or column
\* is rejected with an error, and no Location value is produced.
C25_NegativeRejected ==
    (last.op = "Location" /\ (last.a.n < 0 \/ last.a.m < 0)) =>
        (crashed /\ last.obj.raises)


\* ----------------------------------------------------------------- claim C26

\* C26: request_driver returns no driver and appends the rider to the
\* waiting list exactly when no known driver is idle; when it returns a
\* driver, the waiting list is unchanged and no driver's idle flag,
\* destination or location changes.
C26_RequestDriverFrame ==
    [][last'.op = "request_driver" =>
          LET some_idle == \E d \in Drivers :
                              /\ \E i \in 1..Len(available_drivers) :
                                    available_drivers[i] = d
                              /\ driver[d].is_idle
          IN  /\ ~crashed'
              /\ (last'.ret = None) <=> ~some_idle
              /\ (waiting_list' = Append(waiting_list, last'.rider)) <=> ~some_idle
              /\ last'.ret # None =>
                    /\ last'.ret \in Drivers
                    /\ waiting_list' = waiting_list
                    /\ \A d \in Drivers :
                          /\ driver'[d].is_idle = driver[d].is_idle
                          /\ driver'[d].destination = driver[d].destination
                          /\ driver'[d].location = driver[d].location]_vars

\* C26 witness: request_driver has returned a driver while a rider waits.
C26_Witness ==
    /\ last.op = "request_driver"
    /\ last.ret \in Drivers
    /\ driver[last.ret].rider = last.rider
    /\ driver[last.ret].is_idle
    /\ waiting_list # <<>>


\* ----------------------------------------------------------------- claim C27

\* C27: start_drive(L) followed by end_drive() leaves the driver idle, with
\* no destination, located at L; start_ride(r) followed by end_ride() leaves
\* the driver idle, with no destination and no rider, located at
\* r.destination; start_drive and start_ride do not change the driver's
\* location and return the travel time from the current location.
C27_RoundTrip ==
    [][/\ (/\ last'.op \in {"start_drive", "start_ride"}
           /\ driver[TheDriver].location # NoLocation) =>
              /\ ~crashed'
              /\ driver'[TheDriver].location = driver[TheDriver].location
              /\ last'.ret = get_travel_time(driver[TheDriver], last'.arg)
       /\ (last.op = "start_drive" /\ last'.op = "end_drive") =>
              /\ driver'[TheDriver].is_idle
              /\ driver'[TheDriver].destination = NoLocation
              /\ driver'[TheDriver].location = last.arg
       /\ (last.op = "start_ride" /\ last'.op = "end_ride") =>
              /\ driver'[TheDriver].is_idle
              /\ driver'[TheDriver].destination = NoLocation
              /\ driver'[TheDriver].rider = None
              /\ driver[TheDriver].rider \in DispRiders
              /\ driver'[TheDriver].location =
                     rider[driver[TheDriver].rider].destination]_vars

\* C27 witness: a ride to the far corner has ended.
C27_Witness ==
    /\ last.op = "end_ride"
    /\ driver[TheDriver].is_idle
    /\ driver[TheDriver].rider = None
    /\ driver[TheDriver].destination = NoLocation
    /\ driver[TheDriver].location = Location(MaxCoord, MaxCoord)
    /\ driver[TheDriver].speed = MaxSpeed


\* ----------------------------------------------------- claims C28 .. C30

\* The events of the given kinds that wait in the queue and name driver d.
PendingFor(d, kinds) ==
    {i \in 1..Len(events) : events[i].kind \in kinds /\ events[i].driver = d}

\* C28 (as claimed): between two events, every rider whose RiderRequest has
\* been processed and whose status is still Waiting is in the waiting list
\* or has a Pickup pending in the event queue.
C28_NoWaitingRiderLost ==
    ~crashed =>
        \A r \in Riders :
            (activities[RIDER][r] # <<>> /\ rider[r].status = WAITING) =>
                \/ \E i \in 1..Len(waiting_list) : waiting_list[i] = r
                \/ \E i \in 1..Len(events) :
                      events[i].kind = "Pickup" /\ events[i].rider = r

\* C29 (as claimed): between two events, a registered driver that has no
\* Pickup, Dropoff or DriverRequest pending in the queue is idle.
C29_DriverNeverStuckBusy ==
    ~crashed =>
        \A d \in Drivers :
            (/\ \E i \in 1..Len(available_drivers) : available_drivers[i] = d
             /\ PendingFor(d, {"Pickup", "Dropoff", "DriverRequest"}) = {}) =>
                driver[d].is_idle

\* C30 (as claimed): for each driver the event queue holds at most one
\* pending Pickup or Dropoff naming that driver.
C30_OneRiderAtATime ==
    \A d \in Drivers : Cardinality(PendingFor(d, {"Pickup", "Dropoff"})) <= 1

\* ----------------------------------------------------- claims C31 .. C34

\* C31 (as claimed): whenever Pickup(rider, driver) is processed, the
\* driver's destination is set and equals rider.origin, and after the step
\* the driver's location is rider.origin and is not unset.
C31_DriverArrivedAtPickup ==
    [][(Running /\ Head(events).kind = "Pickup") =>
          LET d == Head(events).driver
              r == Head(events).rider
          IN  /\ driver[d].destination # NoLocation
              /\ driver[d].destination = rider[r].origin
              /\ driver'[d].location # NoLocation
              /\ driver'[d].location = rider[r].origin]_vars

\* The riders whose Dropoff has been recorded in the given log.
DroppedOff(act) ==
    {r \in Riders : \E i \in 1..Len(act[RIDER][r]) :
                        act[RIDER][r][i].description = DROPOFF}

\* C32 (as claimed): the driver record written by Pickup(rider, driver) has
\* location rider.origin, the driver record written by Dropoff(rider, driver)
\* has location rider.destination, and the average ride distance over the
\* log is the mean of manhattan_distance(rider.origin, rider.destination)
\* over the completed rides.
C32_RecordsWhereTheyHappen ==
    [][(Running /\ Head(events).kind \in {"Pickup", "Dropoff"}) =>
          LET d == Head(events).driver
              r == Head(events).rider
              log == activities'[DRIVER][d]
              done == DroppedOff(activities')
              rides == [x \in Riders |->
                           manhattan_distance(rider[x].origin, rider[x].destination)]
          IN  /\ Len(log) = Len(activities[DRIVER][d]) + 1
              /\ Head(events).kind = "Pickup" =>
                    /\ log[Len(log)].description = PICKUP
                    /\ log[Len(log)].location = rider[r].origin
              /\ Head(events).kind = "Dropoff" =>
                    /\ log[Len(log)].description = DROPOFF
                    /\ log[Len(log)].location = rider[r].destination
              /\ IF done = {}
                 THEN average_ride_distance(activities').num = 0
                 ELSE IsRatio(average_ride_distance(activities'),
                              SumOver(rides, done), Cardinality(done))]_vars

\* C33: between two events, every rider in the dispatcher's waiting list has
\* status Waiting.
C33_WaitingListIsWaiting ==
    ~crashed =>
        \A i \in 1..Len(waiting_list) : rider[waiting_list[i]].status = WAITING

\* C33 witness: before any driver has registered, a rider who was waiting has
\* cancelled and another rider still waits.
C33_Witness ==
    /\ last.event.kind = "Cancellation"
    /\ rider[last.event.rider].status = CANCELLED
    /\ available_drivers = <<>>
    /\ waiting_list # <<>>
    /\ \A i \in 1..Len(waiting_list) : waiting_list[i] # last.event.rider

\* C34: when the event queue is drained, every rider whose RiderRequest was
\* processed is Cancelled or Satisfied, and the waiting list is empty.
C34_EveryRiderTerminal ==
    (~crashed /\ events = <<>>) =>
        /\ \A r \in Riders :
              activities[RIDER][r] # <<>> =>
                  rider[r].status \in {CANCELLED, SATISFIED}
        /\ waiting_list = <<>>

\* C34 witness: the queue is drained after every rider has asked, one of
\* them has been served and another has given up.
C34_Witness ==
    /\ ~crashed
    /\ events = <<>>
    /\ \A r \in Riders : activities[RIDER][r] # <<>>
    /\ \E r \in Riders : rider[r].status = SATISFIED
    /\ \E r \in Riders : rider[r].status = CANCELLED

====
